---------------------------- MODULE Spec2Model ----------------------------
(***************************************************************************)
(* p2pBandwidthLatencyTest.cu as a state machine.                          *)
(*                                                                         *)
(* The host program (main and the three sweep functions it calls) is kept  *)
(* as a table of instructions, one per statement of the source, each with  *)
(* the source line it stands for.  One action per kind of statement        *)
(* executes the instruction the host program counter points at.  The CUDA  *)
(* runtime the program is built on is modelled by its contract: streams    *)
(* are FIFO queues of operations that the device retires asynchronously,   *)
(* events complete when the stream reaches them, the last error of any     *)
(* runtime call is latched until cudaGetLastError reads it.                *)
(*                                                                         *)
(* Two specifications share the actions.  Spec runs the program on a       *)
(* runtime whose calls may fail and whose barrier kernel may time out at   *)
(* any moment (no clock).  MockSpec runs it on a deterministic mock        *)
(* runtime with a clock: a copy takes CopyTime ticks, nothing fails.       *)
(***************************************************************************)
EXTENDS Integers, Sequences, FiniteSets

\* ------------------------------------------------------------- bounds
\* Largest device count cudaGetDeviceCount may report.
MaxGPUs == 2
\* Stand-in for repeat = 5 of the two bandwidth sweeps (lines 85, 232).
RepeatBw == 2
\* Stand-in for repeat = 100 of the latency sweep (line 383).
RepeatLat == 2
\* Number of runtime calls that may fail in one run (Spec).
MaxFaults == 1
\* Ticks a copy of the bandwidth buffer takes on the mock runtime.
CopyTime == 2
\* Ticks of device time after which the delay kernel gives up
\* (stand-in for timeout_ns = 10000000000, line 36).
Timeout == 2
\* Cells of one run in which the host is late enough for the barrier to
\* time out (MockSpec).
MaxTimeouts == 1
\* Ticks, per run, that the host may idle between two statements of a cell
\* while no copy is running (MockSpec).
MaxStalls == 1
\* Operations a stream holds before an enqueueing call blocks the host
\* (FairSpec; the comment of lines 284-287).
QueueDepth == 3

\* ------------------------------------------------- program constants
numElems == 10000000
SizeofInt == 4
\* gb is kept in units of 1e7 bytes (the source divides by 1e9, line 179):
\* numElems * sizeof(int) * repeat is a multiple of it.
GbUnit == 10000000
LatBytes == 1

Devs == 0 .. (MaxGPUs - 1)

\* --------------------------------------------------- the host program
Ins(op, line, arg) == [op |-> op, line |-> line, arg |-> arg]
NoArg == <<>>

Loop(line, id, var, lim) == Ins("Loop", line, [id |-> id, var |-> var, lim |-> lim])
EndLoop(line, id, var, lim) == Ins("EndLoop", line, [id |-> id, var |-> var, lim |-> lim])
If(line, id, cond) == Ins("If", line, [id |-> id, cond |-> cond])
Else(line, id) == Ins("Else", line, [id |-> id])
EndIf(line, id) == Ins("EndIf", line, [id |-> id])
Check(line) == Ins("Check", line, NoArg)
SetDevice(line, var) == Ins("SetDevice", line, var)
Memcpy(line, dst, src, st) == Ins("Memcpy", line, [dst |-> dst, src |-> src, st |-> st])
Record(line, e, st) == Ins("EventRecord", line, [e |-> e, st |-> st])
WaitEvent(line, st, e) == Ins("StreamWaitEvent", line, [e |-> e, st |-> st])
Sync(line, st) == Ins("StreamSync", line, st)
Call(line, fn, p2p, method) == Ins("Call", line, [fn |-> fn, p2p |-> p2p, method |-> method])

\* main, lines 546-630, with checkP2Paccess (lines 64-80) inlined at its
\* call (line 576).
MainHead ==
  << Ins("GetDeviceCount", 551, NoArg),
     Check(552),
     If(555, "help", "help"),
       Ins("Print", 557, "usage"),
       Ins("Return0", 558, NoArg),
     EndIf(559, "help"),
     If(561, "read", "p2p_read"),
       Ins("SetRead", 563, NoArg),
     EndIf(564, "read"),
     Ins("Print", 566, "banner"),
     Loop(569, "props", "i", "numGPUs"),
       Ins("GetDeviceProperties", 571, NoArg),
       Check(572),
       Ins("Print", 573, "device"),
     EndLoop(574, "props", "i", "numGPUs") >>

P2Paccess ==
  << Loop(66, "acc.i", "i", "numGPUs"),
       SetDevice(67, "i"),
       Check(68),
       Loop(70, "acc.j", "j", "numGPUs"),
         If(72, "acc.ne", "i!=j"),
           Ins("CanAccessPeer", 73, NoArg),
           Check(74),
           Ins("Print", 75, "access"),
         EndIf(76, "acc.ne"),
       EndLoop(77, "acc.j", "j", "numGPUs"),
     EndLoop(78, "acc.i", "i", "numGPUs"),
     Ins("Print", 79, "note") >>

Connectivity ==
  << Ins("Print", 579, "conn.title"),
     Loop(587, "conn.i", "i", "numGPUs"),
       Loop(589, "conn.j", "j", "numGPUs"),
         If(590, "conn.ne", "i!=j"),
           Ins("CanAccessPeer", 592, NoArg),
           Check(593),
           Ins("Print", 594, "conn.cell"),
         Else(596, "conn.ne"),
           Ins("Print", 597, "conn.cell"),
         EndIf(598, "conn.ne"),
       EndLoop(599, "conn.j", "j", "numGPUs"),
     EndLoop(601, "conn.i", "i", "numGPUs") >>

\* MainSweeps with the unidirectional read sweep moved behind the
\* bidirectional sweeps.
MainSweepsReadLater ==
  << Ins("Print", 603, "title"),
     Call(604, "bw", FALSE, "W"),
     Ins("Print", 605, "title"),
     Call(606, "bw", TRUE, "W"),
     Ins("Print", 612, "title"),
     Call(613, "bidi", FALSE, "W"),
     Ins("Print", 614, "title"),
     Call(615, "bidi", TRUE, "W"),
     If(607, "bw.read", "method_read"),
       Ins("Print", 609, "title"),
       Call(610, "bw", TRUE, "p2p_method"),
     EndIf(611, "bw.read"),
     Ins("Print", 617, "title"),
     Call(618, "lat", FALSE, "W"),
     Ins("Print", 619, "title"),
     Call(620, "lat", TRUE, "W"),
     If(621, "lat.read", "method_read"),
       Ins("Print", 623, "title"),
       Call(624, "lat", TRUE, "p2p_method"),
     EndIf(625, "lat.read"),
     Ins("Print", 627, "note"),
     Ins("Exit", 629, 0) >>

MainSweeps ==
  << Ins("Print", 603, "title"),
     Call(604, "bw", FALSE, "W"),
     Ins("Print", 605, "title"),
     Call(606, "bw", TRUE, "W"),
     If(607, "bw.read", "method_read"),
       Ins("Print", 609, "title"),
       Call(610, "bw", TRUE, "p2p_method"),
     EndIf(611, "bw.read"),
     Ins("Print", 612, "title"),
     Call(613, "bidi", FALSE, "W"),
     Ins("Print", 614, "title"),
     Call(615, "bidi", TRUE, "W"),
     Ins("Print", 617, "title"),
     Call(618, "lat", FALSE, "W"),
     Ins("Print", 619, "title"),
     Call(620, "lat", TRUE, "W"),
     If(621, "lat.read", "method_read"),
       Ins("Print", 623, "title"),
       Call(624, "lat", TRUE, "p2p_method"),
     EndIf(625, "lat.read"),
     Ins("Print", 627, "note"),
     Ins("Exit", 629, 0) >>

Main == MainHead \o P2Paccess \o Connectivity \o MainSweeps

\* outputBandwidthMatrix, lines 82-227.
BwAlloc ==
  << Ins("HostAlloc", 93, NoArg),
     Check(94),
     Loop(96, "bw.alloc", "d", "numGPUs"),
       SetDevice(97, "d"),
       Ins("StreamCreate", 98, "stream"),
       Ins("Malloc", 99, "buffers"),
       Check(100),
       Ins("Malloc", 101, "buffersD2D"),
       Check(102),
       Ins("EventCreate", 103, "start"),
       Check(104),
       Ins("EventCreate", 105, "stop"),
       Check(106),
     EndLoop(107, "bw.alloc", "d", "numGPUs"),
     Ins("NewMatrix", 109, NoArg) >>

\* BwEnable without the return to device i (line 125).
BwEnableStaysOnPeer ==
  << If(116, "bw.p2p", "p2p"),
       Ins("CanAccessPeer", 117, NoArg),
       If(118, "bw.access", "access"),
         Ins("EnablePeer", 119, "j"),
         Check(120),
         SetDevice(121, "j"),
         Check(122),
         Ins("EnablePeer", 123, "i"),
         Check(124),
         Check(126),
       EndIf(127, "bw.access"),
     EndIf(128, "bw.p2p") >>

BwEnable ==
  << If(116, "bw.p2p", "p2p"),
       Ins("CanAccessPeer", 117, NoArg),
       If(118, "bw.access", "access"),
         Ins("EnablePeer", 119, "j"),
         Check(120),
         SetDevice(121, "j"),
         Check(122),
         Ins("EnablePeer", 123, "i"),
         Check(124),
         SetDevice(125, "i"),
         Check(126),
       EndIf(127, "bw.access"),
     EndIf(128, "bw.p2p") >>

\* BwBarrier with the start record enqueued before the delay kernel.
BwBarrierRecordFirst ==
  << Sync(130, <<"stream", "i">>),
     Check(131),
     Ins("FlagWrite", 138, 0),
     Record(141, <<"start", "i">>, <<"stream", "i">>),
     Check(142),
     Ins("Launch", 139, <<"stream", "i">>),
     Check(140) >>

BwBarrier ==
  << Sync(130, <<"stream", "i">>),
     Check(131),
     Ins("FlagWrite", 138, 0),
     Ins("Launch", 139, <<"stream", "i">>),
     Check(140),
     Record(141, <<"start", "i">>, <<"stream", "i">>),
     Check(142) >>

\* BwCopies with the read policy copying in the write policy's direction.
BwCopiesOneDirection ==
  << If(144, "bw.diag", "i==j"),
       Loop(146, "bw.d2d", "r", "repeat"),
         Memcpy(147, <<"buffers", "i">>, <<"buffersD2D", "i">>, <<"stream", "i">>),
       EndLoop(148, "bw.d2d", "r", "repeat"),
     Else(150, "bw.diag"),
       If(151, "bw.write", "write"),
         Loop(153, "bw.wr", "r", "repeat"),
           Memcpy(155, <<"buffers", "j">>, <<"buffers", "i">>, <<"stream", "i">>),
         EndLoop(156, "bw.wr", "r", "repeat"),
       Else(158, "bw.write"),
         Loop(160, "bw.rd", "r", "repeat"),
           Memcpy(162, <<"buffers", "j">>, <<"buffers", "i">>, <<"stream", "i">>),
         EndLoop(163, "bw.rd", "r", "repeat"),
       EndIf(164, "bw.write"),
     EndIf(165, "bw.diag") >>

BwCopies ==
  << If(144, "bw.diag", "i==j"),
       Loop(146, "bw.d2d", "r", "repeat"),
         Memcpy(147, <<"buffers", "i">>, <<"buffersD2D", "i">>, <<"stream", "i">>),
       EndLoop(148, "bw.d2d", "r", "repeat"),
     Else(150, "bw.diag"),
       If(151, "bw.write", "write"),
         Loop(153, "bw.wr", "r", "repeat"),
           Memcpy(155, <<"buffers", "j">>, <<"buffers", "i">>, <<"stream", "i">>),
         EndLoop(156, "bw.wr", "r", "repeat"),
       Else(158, "bw.write"),
         Loop(160, "bw.rd", "r", "repeat"),
           Memcpy(162, <<"buffers", "i">>, <<"buffers", "j">>, <<"stream", "i">>),
         EndLoop(163, "bw.rd", "r", "repeat"),
       EndIf(164, "bw.write"),
     EndIf(165, "bw.diag") >>

\* BwRelease with the barrier opened first, before the stop record.
BwReleaseEarly ==
  << Ins("FlagWrite", 171, 1),
     Record(167, <<"stop", "i">>, <<"stream", "i">>),
     Check(168),
     Sync(172, <<"stream", "i">>),
     Check(173) >>

BwRelease ==
  << Record(167, <<"stop", "i">>, <<"stream", "i">>),
     Check(168),
     Ins("FlagWrite", 171, 1),
     Sync(172, <<"stream", "i">>),
     Check(173) >>

BwStore ==
  << Ins("ElapsedTime", 176, [start |-> <<"start", "i">>, stop |-> <<"stop", "i">>]),
     Ins("StoreBandwidth", 183, 1) >>

BwDisable ==
  << If(184, "bw.dis", "p2p&&access"),
       Ins("DisablePeer", 185, "j"),
       SetDevice(186, "j"),
       Ins("DisablePeer", 187, "i"),
       SetDevice(188, "i"),
       Check(189),
     EndIf(190, "bw.dis") >>

BwFree ==
  << Ins("PrintMatrix", 194, NoArg),
     Loop(212, "bw.free", "d", "numGPUs"),
       SetDevice(213, "d"),
       Ins("Free", 214, "buffers"),
       Ins("Free", 215, "buffersD2D"),
       Check(216),
       Ins("EventDestroy", 217, "start"),
       Check(218),
       Ins("EventDestroy", 219, "stop"),
       Check(220),
       Ins("StreamDestroy", 221, "stream"),
       Check(222),
     EndLoop(223, "bw.free", "d", "numGPUs"),
     Ins("FreeHost", 225, NoArg),
     Check(226),
     Ins("Ret", 227, NoArg) >>

outputBandwidthMatrix ==
  BwAlloc
  \o << Loop(111, "bw.i", "i", "numGPUs"),
        SetDevice(112, "i"),
        Loop(114, "bw.j", "j", "numGPUs") >>
  \o BwEnable \o BwBarrier \o BwCopies \o BwRelease \o BwStore \o BwDisable
  \o << EndLoop(191, "bw.j", "j", "numGPUs"),
        EndLoop(192, "bw.i", "i", "numGPUs") >>
  \o BwFree

\* outputBidirectionalBandwidthMatrix, lines 229-379.
BidiAlloc ==
  << Ins("HostAlloc", 241, NoArg),
     Check(242),
     Loop(244, "bidi.alloc", "d", "numGPUs"),
       SetDevice(245, "d"),
       Ins("Malloc", 246, "buffers"),
       Ins("Malloc", 247, "buffersD2D"),
       Check(248),
       Ins("EventCreate", 249, "start"),
       Check(250),
       Ins("EventCreate", 251, "stop"),
       Check(252),
       Ins("StreamCreate", 253, "stream0"),
       Check(254),
       Ins("StreamCreate", 255, "stream1"),
       Check(256),
     EndLoop(257, "bidi.alloc", "d", "numGPUs"),
     Ins("NewMatrix", 259, NoArg) >>

\* BidiEnable without the enable of i on device j (line 273).
BidiEnableOneDirection ==
  << If(266, "bidi.p2p", "p2p"),
       Ins("CanAccessPeer", 267, NoArg),
       If(268, "bidi.access", "access"),
         SetDevice(269, "i"),
         Ins("EnablePeer", 270, "j"),
         Check(271),
         SetDevice(272, "j"),
         Check(274),
       EndIf(275, "bidi.access"),
     EndIf(276, "bidi.p2p") >>

BidiEnable ==
  << If(266, "bidi.p2p", "p2p"),
       Ins("CanAccessPeer", 267, NoArg),
       If(268, "bidi.access", "access"),
         SetDevice(269, "i"),
         Ins("EnablePeer", 270, "j"),
         Check(271),
         SetDevice(272, "j"),
         Ins("EnablePeer", 273, "i"),
         Check(274),
       EndIf(275, "bidi.access"),
     EndIf(276, "bidi.p2p") >>

\* BidiBarrier without the wait of stream1[j] for start[i].
BidiBarrierNoWait ==
  << SetDevice(279, "i"),
     Sync(280, <<"stream0", "i">>),
     Sync(281, <<"stream1", "j">>),
     Check(282),
     Ins("FlagWrite", 289, 0),
     SetDevice(290, "i"),
     Ins("Launch", 292, <<"stream0", "i">>),
     Check(293),
     Record(297, <<"start", "i">>, <<"stream0", "i">>) >>

BidiBarrier ==
  << SetDevice(279, "i"),
     Sync(280, <<"stream0", "i">>),
     Sync(281, <<"stream1", "j">>),
     Check(282),
     Ins("FlagWrite", 289, 0),
     SetDevice(290, "i"),
     Ins("Launch", 292, <<"stream0", "i">>),
     Check(293),
     Record(297, <<"start", "i">>, <<"stream0", "i">>),
     WaitEvent(298, <<"stream1", "j">>, <<"start", "i">>) >>

BidiCopies ==
  << If(300, "bidi.diag", "i==j"),
       Loop(302, "bidi.d2d", "r", "repeat"),
         Memcpy(303, <<"buffers", "i">>, <<"buffersD2D", "i">>, <<"stream0", "i">>),
         Memcpy(304, <<"buffersD2D", "i">>, <<"buffers", "i">>, <<"stream1", "i">>),
       EndLoop(305, "bidi.d2d", "r", "repeat"),
     Else(307, "bidi.diag"),
       Loop(308, "bidi.xfer", "r", "repeat"),
         Memcpy(309, <<"buffers", "i">>, <<"buffers", "j">>, <<"stream1", "j">>),
         Memcpy(310, <<"buffers", "j">>, <<"buffers", "i">>, <<"stream0", "i">>),
       EndLoop(311, "bidi.xfer", "r", "repeat"),
     EndIf(312, "bidi.diag") >>

\* BidiRelease without the wait of stream0[i] for stop[j].
BidiReleaseNoWait ==
  << Record(316, <<"stop", "j">>, <<"stream1", "j">>),
     Record(318, <<"stop", "i">>, <<"stream0", "i">>),
     Ins("FlagWrite", 321, 1),
     Sync(322, <<"stream0", "i">>),
     Sync(323, <<"stream1", "j">>),
     Check(324) >>

BidiRelease ==
  << Record(316, <<"stop", "j">>, <<"stream1", "j">>),
     WaitEvent(317, <<"stream0", "i">>, <<"stop", "j">>),
     Record(318, <<"stop", "i">>, <<"stream0", "i">>),
     Ins("FlagWrite", 321, 1),
     Sync(322, <<"stream0", "i">>),
     Sync(323, <<"stream1", "j">>),
     Check(324) >>

\* BidiStore reading stop[j], the event recorded on stream1[j].
BidiStoreOtherStop ==
  << Ins("ElapsedTime", 327, [start |-> <<"start", "i">>, stop |-> <<"stop", "j">>]),
     Ins("StoreBandwidth", 334, 2) >>

BidiStore ==
  << Ins("ElapsedTime", 327, [start |-> <<"start", "i">>, stop |-> <<"stop", "i">>]),
     Ins("StoreBandwidth", 334, 2) >>

BidiDisable ==
  << If(335, "bidi.dis", "p2p&&access"),
       SetDevice(336, "i"),
       Ins("DisablePeer", 337, "j"),
       SetDevice(338, "j"),
       Ins("DisablePeer", 339, "i"),
     EndIf(340, "bidi.dis") >>

BidiFree ==
  << Ins("PrintMatrix", 344, NoArg),
     Loop(362, "bidi.free", "d", "numGPUs"),
       SetDevice(363, "d"),
       Ins("Free", 364, "buffers"),
       Ins("Free", 365, "buffersD2D"),
       Check(366),
       Ins("EventDestroy", 367, "start"),
       Check(368),
       Ins("EventDestroy", 369, "stop"),
       Check(370),
       Ins("StreamDestroy", 371, "stream0"),
       Check(372),
       Ins("StreamDestroy", 373, "stream1"),
       Check(374),
     EndLoop(375, "bidi.free", "d", "numGPUs"),
     Ins("FreeHost", 377, NoArg),
     Check(378),
     Ins("Ret", 379, NoArg) >>

outputBidirectionalBandwidthMatrix ==
  BidiAlloc
  \o << Loop(261, "bidi.i", "i", "numGPUs"),
        SetDevice(262, "i"),
        Loop(264, "bidi.j", "j", "numGPUs") >>
  \o BidiEnable \o BidiBarrier \o BidiCopies \o BidiRelease \o BidiStore \o BidiDisable
  \o << EndLoop(341, "bidi.j", "j", "numGPUs"),
        EndLoop(342, "bidi.i", "i", "numGPUs") >>
  \o BidiFree

\* outputLatencyMatrix, lines 381-544.
LatAlloc ==
  << Ins("HostAlloc", 392, NoArg),
     Check(393),
     Ins("TimerCreate", 395, NoArg),
     Ins("TimerStart", 399, NoArg),
     Loop(401, "lat.alloc", "d", "numGPUs"),
       SetDevice(402, "d"),
       Ins("StreamCreate", 403, "stream"),
       Ins("Malloc", 404, "buffers"),
       Ins("Malloc", 405, "buffersD2D"),
       Check(406),
       Ins("EventCreate", 407, "start"),
       Check(408),
       Ins("EventCreate", 409, "stop"),
       Check(410),
     EndLoop(411, "lat.alloc", "d", "numGPUs"),
     Ins("NewMatrix", 413, NoArg) >>

LatEnable ==
  << If(421, "lat.p2p", "p2p"),
       Ins("CanAccessPeer", 422, NoArg),
       If(423, "lat.access", "access"),
         Ins("EnablePeer", 424, "j"),
         Check(425),
         SetDevice(426, "j"),
         Ins("EnablePeer", 427, "i"),
         SetDevice(428, "i"),
         Check(429),
       EndIf(430, "lat.access"),
     EndIf(431, "lat.p2p") >>

LatBarrier ==
  << Sync(432, <<"stream", "i">>),
     Check(433),
     Ins("FlagWrite", 440, 0),
     Ins("Launch", 441, <<"stream", "i">>),
     Check(442),
     Record(443, <<"start", "i">>, <<"stream", "i">>),
     Ins("TimerReset", 445, NoArg) >>

LatCopies ==
  << If(446, "lat.diag", "i==j"),
       Loop(448, "lat.d2d", "r", "repeat"),
         Memcpy(449, <<"buffers", "i">>, <<"buffersD2D", "i">>, <<"stream", "i">>),
       EndLoop(450, "lat.d2d", "r", "repeat"),
     Else(452, "lat.diag"),
       If(453, "lat.write", "write"),
         Loop(455, "lat.wr", "r", "repeat"),
           Memcpy(457, <<"buffers", "j">>, <<"buffers", "i">>, <<"stream", "i">>),
         EndLoop(458, "lat.wr", "r", "repeat"),
       Else(460, "lat.write"),
         Loop(462, "lat.rd", "r", "repeat"),
           Memcpy(464, <<"buffers", "i">>, <<"buffers", "j">>, <<"stream", "i">>),
         EndLoop(465, "lat.rd", "r", "repeat"),
       EndIf(466, "lat.write"),
     EndIf(467, "lat.diag") >>

\* LatRelease with the stop watch read after the synchronisation.
LatReleaseReadLast ==
  << Record(470, <<"stop", "i">>, <<"stream", "i">>),
     Ins("FlagWrite", 472, 1),
     Sync(473, <<"stream", "i">>),
     Check(474),
     Ins("TimerRead", 468, NoArg) >>

LatRelease ==
  << Ins("TimerRead", 468, NoArg),
     Record(470, <<"stop", "i">>, <<"stream", "i">>),
     Ins("FlagWrite", 472, 1),
     Sync(473, <<"stream", "i">>),
     Check(474) >>

LatStore ==
  << Ins("ElapsedTime", 477, [start |-> <<"start", "i">>, stop |-> <<"stop", "i">>]),
     Ins("StoreLatency", 479, NoArg) >>

LatDisable ==
  << If(481, "lat.dis", "p2p&&access"),
       Ins("DisablePeer", 482, "j"),
       SetDevice(483, "j"),
       Ins("DisablePeer", 484, "i"),
       SetDevice(485, "i"),
       Check(486),
     EndIf(487, "lat.dis") >>

LatFree ==
  << Ins("PrintMatrix", 491, NoArg),
     Loop(527, "lat.free", "d", "numGPUs"),
       SetDevice(528, "d"),
       Ins("Free", 529, "buffers"),
       Ins("Free", 530, "buffersD2D"),
       Check(531),
       Ins("EventDestroy", 532, "start"),
       Check(533),
       Ins("EventDestroy", 534, "stop"),
       Check(535),
       Ins("StreamDestroy", 536, "stream"),
       Check(537),
     EndLoop(538, "lat.free", "d", "numGPUs"),
     Ins("TimerDelete", 540, NoArg),
     Ins("FreeHost", 542, NoArg),
     Check(543),
     Ins("Ret", 544, NoArg) >>

outputLatencyMatrix ==
  LatAlloc
  \o << Loop(416, "lat.i", "i", "numGPUs"),
        SetDevice(417, "i"),
        Loop(419, "lat.j", "j", "numGPUs") >>
  \o LatEnable \o LatBarrier \o LatCopies \o LatRelease \o LatStore \o LatDisable
  \o << EndLoop(488, "lat.j", "j", "numGPUs"),
        EndLoop(489, "lat.i", "i", "numGPUs") >>
  \o LatFree

\* The whole program: main first, then the three functions it calls.
Program ==
  Main \o outputBandwidthMatrix \o outputBidirectionalBandwidthMatrix
       \o outputLatencyMatrix

EntryOf(fn) ==
  CASE fn = "bw" -> Len(Main) + 1
    [] fn = "bidi" -> Len(Main) + Len(outputBandwidthMatrix) + 1
    [] fn = "lat" -> Len(Main) + Len(outputBandwidthMatrix)
                       + Len(outputBidirectionalBandwidthMatrix) + 1

\* The function an instruction belongs to.
FnAt(k) ==
  IF k <= Len(Main) THEN "main"
  ELSE IF k < EntryOf("bidi") THEN "bw"
  ELSE IF k < EntryOf("lat") THEN "bidi"
  ELSE "lat"

\* Index of the instruction with operation op and structure id.
Pos(op, id) ==
  CHOOSE k \in 1 .. Len(Program) : Program[k].op = op /\ Program[k].arg.id = id

HasElse(id) ==
  \E k \in 1 .. Len(Program) : Program[k].op = "Else" /\ Program[k].arg.id = id

\* The next instruction that does something: an else reached from the end
\* of the then-branch jumps behind its endif, an endif is passed through.
RECURSIVE Skip(_)
Skip(k) ==
  IF Program[k].op = "EndIf" THEN Skip(k + 1)
  ELSE IF Program[k].op = "Else" THEN Skip(Pos("EndIf", Program[k].arg.id) + 1)
  ELSE k

\* -------------------------------------------------------------- state
VARIABLES
  numGPUs,      \* what cudaGetDeviceCount reports (line 551)
  help,         \* --help on the command line (line 555)
  p2p_read,     \* --p2p_read on the command line (line 561)
  cap,          \* the runtime's peer capability relation, <<i, j>> pairs
  drv,          \* the runtime under the program: [timed, mayFail, overlap]
  pc,           \* index in Program of the statement the host executes next
  ret,          \* where the running sweep function returns to
  args,         \* the running function's parameters: [fn, p2p, method]
  p2p_method,   \* main's p2p_method (line 549)
  reg,          \* host locals: d, i, j, r, access, time_ms, cpu_time_ms
  curDev,       \* the host thread's current device
  lastErr,      \* the runtime's latched last error (cudaGetLastError)
  exited,       \* the process has terminated
  exitCode,     \* with this status
  out,          \* what has been printed, in order
  flag,         \* *flag, the barrier flag in host memory
  q,            \* per stream, the operations enqueued and not yet retired
  ev,           \* per event: records issued, records completed, timestamp
  peer,         \* the directed pairs <<a, b>>: a has peer access to b enabled
  matrix,       \* bandwidthMatrix / gpuLatencyMatrix
  cpuMatrix,    \* cpuLatencyMatrix
  clock,        \* the mock runtime's time
  engineFree,   \* the time the mock's single copy engine is free again
  swStart,      \* the stop watch's reset time
  obs           \* observations about the run, read by no statement

vars ==
  << numGPUs, help, p2p_read, cap, drv, pc, ret, args, p2p_method, reg, curDev,
     lastErr, exited, exitCode, out, flag, q, ev, peer, matrix, cpuMatrix,
     clock, engineFree, swStart, obs >>

inputs == << numGPUs, help, p2p_read, cap, drv >>
device == << q, ev, clock, engineFree >>

Streams == {"s0", "s1"} \X Devs
Events == {"start", "stop"} \X Devs

\* stream (one per device) and stream0 are the first stream of a device,
\* stream1 the second.
StreamOf(a) == << IF a[1] = "stream1" THEN "s1" ELSE "s0", reg[a[2]] >>
EventOf(a) == << a[1], reg[a[2]] >>
BufferOf(a) == << a[1], reg[a[2]] >>

Cur == Program[pc]
At(op) == ~exited /\ Cur.op = op

repeat == IF FnAt(pc) = "lat" THEN RepeatLat ELSE RepeatBw

Lim(name) == IF name = "numGPUs" THEN numGPUs ELSE repeat

Cond(c) ==
  CASE c = "help" -> help
    [] c = "p2p_read" -> p2p_read
    [] c = "method_read" -> p2p_method = "R"
    [] c = "i!=j" -> reg.i # reg.j
    [] c = "i==j" -> reg.i = reg.j
    [] c = "p2p" -> args.p2p
    [] c = "access" -> reg.access
    [] c = "p2p&&access" -> args.p2p /\ reg.access
    [] c = "write" -> args.method = "W"

Step == pc' = Skip(pc + 1)

Max(a, b) == IF a >= b THEN a ELSE b
MinOf(S) == CHOOSE x \in S : \A y \in S : x <= y

\* A measured value (a double in the source) is kept as the exact fraction
\* num / den; den = 0 is the division by a zero elapsed time.
Frac(n, d) == [num |-> n, den |-> d]
Zero == Frac(0, 1)
\* The index reg.j * numGPUs + reg.i, column by column.
CellColumnMajor == reg.j * numGPUs + reg.i

\* The index of cell (i, j) in a matrix (lines 183, 334, 479-480).
Cell == reg.i * numGPUs + reg.j

\* ----------------------------------------------------- runtime calls
\* What the latch would be if every call overwrote the last error.
LastCallOnly(prev, ok) == ~ok

\* cudaGetLastError (lines 29-35): an error stays latched until it is read;
\* a later successful call does not clear it.
LatchError(prev, ok) == prev \/ ~ok

\* The results a runtime call may have: it succeeds, or, on the runtime of
\* Spec, it fails.
Outcomes ==
  IF drv.mayFail /\ obs.faults < MaxFaults THEN {TRUE, FALSE} ELSE {TRUE}

\* The call in progress failed: the error is latched and noted.
Failed(o, injected) ==
  [o EXCEPT !.failed = TRUE,
            !.faults = IF injected THEN @ + 1 ELSE @,
            !.failedAt = @ \cup {<< o.sweep, Cur.line >>}]

\* A runtime call with result ok; o is obs with the call counted.
Returns(ok, o) ==
  /\ lastErr' = LatchError(lastErr, ok)
  /\ obs' = IF ok THEN o ELSE Failed(o, TRUE)

\* A runtime call that failed by its contract (not an injected fault).
Refused ==
  /\ lastErr' = LatchError(lastErr, FALSE)
  /\ obs' = Failed(obs, FALSE)

CanAccess(a, b) == a # b /\ << a, b >> \in cap

\* -------------------------------------------------- stream operations
Op(k, a, gen, dur) ==
  [k |-> k, a |-> a, gen |-> gen, dur |-> dur, t |-> 0, cell |-> << reg.i, reg.j >>]

\* The operation that has become the head of its stream starts: a kernel
\* notes its start time, a copy the time it will be done.
CopyBegin == IF drv.overlap THEN clock ELSE Max(clock, engineFree)

Arm(op) ==
  IF ~drv.timed THEN op
  ELSE IF op.k = "K" THEN [op EXCEPT !.t = clock]
  ELSE IF op.k = "C" THEN [op EXCEPT !.t = CopyBegin + op.dur]
  ELSE op

EngineAfter(op) ==
  IF drv.timed /\ op.k = "C" THEN CopyBegin + op.dur ELSE engineFree

Enqueue(s, op) ==
  /\ drv.depth = 0 \/ Len(q[s]) < drv.depth
  /\ q' = [q EXCEPT ![s] = IF @ = << >> THEN << Arm(op) >> ELSE Append(@, op)]
  /\ engineFree' = IF q[s] = << >> THEN EngineAfter(op) ELSE engineFree

Retire(s) ==
  /\ q' = [q EXCEPT ![s] = IF Len(@) > 1
                             THEN << Arm(@[2]) >> \o SubSeq(@, 3, Len(@))
                             ELSE << >>]
  /\ engineFree' = IF Len(q[s]) > 1 THEN EngineAfter(q[s][2]) ELSE engineFree

HeadOp(s) == q[s][1]
HeadIs(s, k) == q[s] # << >> /\ HeadOp(s).k = k

\* An event: the records issued and completed, the time and the stream of
\* the latest record, and whether that time precedes the time origin.
NewEvent ==
  [issued |-> 0, fired |-> 0, ts |-> 0, old |-> FALSE, st |-> << "none", 0 >>]
Complete(e) == ev[e].issued > 0 /\ ev[e].fired = ev[e].issued

NoObs ==
  [failed |-> FALSE, faults |-> 0, failedAt |-> {}, sweep |-> 0,
   sweeps |-> << >>,
   queries |-> 0, allocs |-> 0,
   closed |-> FALSE, launched |-> FALSE, copies |-> 0, done |-> 0, stops |-> 0, timedOut |-> FALSE,
   anyTimeout |-> FALSE,
   nTimeouts |-> 0, nStalls |-> 0, written |-> << >>, uni |-> [b \in BOOLEAN |-> << >>]]

\* The capability relations the runs are checked with: none, all pairs,
\* and a one-way relation (lower to higher index only).
AllPairs(n) == {<< a, b >> \in (0 .. n - 1) \X (0 .. n - 1) : a # b}

Capabilities(n) ==
  { {}, AllPairs(n), {<< a, b >> \in (0 .. n - 1) \X (0 .. n - 1) : a < b} }

InitProgram ==
  /\ numGPUs \in 1 .. MaxGPUs
  /\ help \in BOOLEAN
  /\ p2p_read \in BOOLEAN
  /\ pc = 1
  /\ ret = 0
  /\ args = [fn |-> "main", p2p |-> FALSE, method |-> "W"]
  /\ p2p_method = "W"
  /\ reg = [d |-> 0, i |-> 0, j |-> 0, r |-> 0, access |-> FALSE,
            time_ms |-> 0, cpu_time_ms |-> 0]
  /\ curDev = 0
  /\ lastErr = FALSE
  /\ exited = FALSE
  /\ exitCode = 0
  /\ out = << >>
  /\ flag = 0
  /\ q = [s \in Streams |-> << >>]
  /\ ev = [e \in Events |-> NewEvent]
  /\ peer = {}
  /\ matrix = << >>
  /\ cpuMatrix = << >>
  /\ clock = 0
  /\ engineFree = 0
  /\ swStart = 0
  /\ obs = NoObs

Init ==
  /\ InitProgram
  /\ cap \in Capabilities(numGPUs)
  /\ drv = [timed |-> FALSE, mayFail |-> TRUE, overlap |-> TRUE, depth |-> 0]

\* The mock: every device reaches every other, no call fails, copies of
\* two streams overlap or are serialized on one engine.
MockInit ==
  /\ InitProgram
  /\ cap = AllPairs(numGPUs)
  /\ drv \in {[timed |-> TRUE, mayFail |-> FALSE, overlap |-> o, depth |-> 0] :
               o \in BOOLEAN}

\* No call fails; a stream holds any number of operations or at most
\* QueueDepth, in which case a call that enqueues into a full stream
\* blocks the host until the stream has retired an operation.
FairInit ==
  /\ InitProgram
  /\ cap \in Capabilities(numGPUs)
  /\ drv \in {[timed |-> FALSE, mayFail |-> FALSE, overlap |-> TRUE, depth |-> d] :
               d \in {0, QueueDepth}}

\* The mock's time is counted from the latest of a sweep function's entry
\* and the closing of the barrier: what is in progress keeps its time
\* relative to the new origin, and an event timestamp taken before it is
\* kept only as old (an elapsed time read from it is indeterminate).
RebasedQ ==
  [s \in Streams |->
     IF q[s] = << >> THEN << >>
     ELSE << [q[s][1] EXCEPT !.t = IF drv.timed THEN @ - clock ELSE @] >>
          \o SubSeq(q[s], 2, Len(q[s]))]

RebasedEv == [e \in Events |-> [ev[e] EXCEPT !.ts = 0, !.old = TRUE]]

Rebase ==
  /\ clock' = 0
  /\ engineFree' = Max(0, engineFree - clock)
  /\ swStart' = swStart - clock
  /\ q' = RebasedQ
  /\ ev' = RebasedEv

\* ------------------------------------------------- host: control flow
\* for (v = 0; v < lim; ...) entered (lines 66, 96, 111, 114, 146, ...).
ForEnter ==
  /\ At("Loop")
  /\ reg' = [reg EXCEPT ![Cur.arg.var] = 0]
  /\ pc' = IF 0 < Lim(Cur.arg.lim) THEN Skip(pc + 1)
           ELSE Skip(Pos("EndLoop", Cur.arg.id) + 1)
  /\ UNCHANGED << numGPUs, help, p2p_read, cap, drv, ret, args, p2p_method,
                  curDev, lastErr, exited, exitCode, out, flag, q, ev, peer,
                  matrix, cpuMatrix, clock, engineFree, swStart, obs >>

\* ... v++ and the test at the end of the loop body.
ForNext ==
  /\ At("EndLoop")
  /\ reg' = [reg EXCEPT ![Cur.arg.var] = @ + 1]
  /\ pc' = IF reg[Cur.arg.var] + 1 < Lim(Cur.arg.lim)
           THEN Skip(Pos("Loop", Cur.arg.id) + 1)
           ELSE Skip(pc + 1)
  /\ UNCHANGED << numGPUs, help, p2p_read, cap, drv, ret, args, p2p_method,
                  curDev, lastErr, exited, exitCode, out, flag, q, ev, peer,
                  matrix, cpuMatrix, clock, engineFree, swStart, obs >>

\* if (cond) (lines 72, 116, 118, 144, 151, 184, 555, 561, 607, ...).
Branch ==
  /\ At("If")
  /\ pc' = IF Cond(Cur.arg.cond) THEN Skip(pc + 1)
           ELSE IF HasElse(Cur.arg.id) THEN Skip(Pos("Else", Cur.arg.id) + 1)
           ELSE Skip(Pos("EndIf", Cur.arg.id) + 1)
  /\ UNCHANGED << numGPUs, help, p2p_read, cap, drv, ret, args, p2p_method,
                  reg, curDev, lastErr, exited, exitCode, out, flag, q, ev,
                  peer, matrix, cpuMatrix, clock, engineFree, swStart, obs >>

\* A call of a sweep function from main (lines 604-624).
CallSweep ==
  /\ At("Call")
  /\ ret' = pc + 1
  /\ args' = [fn |-> Cur.arg.fn, p2p |-> Cur.arg.p2p,
              method |-> IF Cur.arg.method = "p2p_method" THEN p2p_method
                         ELSE Cur.arg.method]
  /\ pc' = EntryOf(Cur.arg.fn)
  /\ Rebase
  /\ obs' = [obs EXCEPT !.sweep = @ + 1, !.closed = FALSE,
                        !.sweeps = Append(@, << Cur.arg.fn, Cur.arg.p2p,
                                               IF Cur.arg.method = "p2p_method"
                                               THEN p2p_method
                                               ELSE Cur.arg.method >>)]
  /\ UNCHANGED << numGPUs, help, p2p_read, cap, drv, p2p_method, reg, curDev,
                  lastErr, exited, exitCode, out, flag, peer, matrix,
                  cpuMatrix >>

\* The end of a sweep function (lines 227, 379, 544): its locals are gone.
ReturnSweep ==
  /\ At("Ret")
  /\ pc' = Skip(ret)
  /\ args' = [fn |-> "main", p2p |-> FALSE, method |-> "W"]
  /\ matrix' = << >>
  /\ cpuMatrix' = << >>
  /\ obs' = IF args.fn = "bidi" /\ args.p2p
            THEN [obs EXCEPT !.uni = [b \in BOOLEAN |-> << >>]]
            ELSE obs
  /\ UNCHANGED << numGPUs, help, p2p_read, cap, drv, ret, p2p_method, reg,
                  curDev, lastErr, exited, exitCode, out, flag, q, ev, peer,
                  clock, engineFree, swStart >>

\* cudaCheckError() if it printed nothing and went on.
CheckErrorGoesOn ==
  /\ At("Check")
  /\ lastErr' = FALSE
  /\ Step
  /\ UNCHANGED << numGPUs, help, p2p_read, cap, drv, ret, args, p2p_method,
                  reg, curDev, exited, exitCode, out, flag, q, ev, peer,
                  matrix, cpuMatrix, clock, engineFree, swStart, obs >>

\* cudaCheckError() (lines 29-35): read and clear the last error; print the
\* failure and exit(EXIT_FAILURE) if there was one.
CheckError ==
  /\ At("Check")
  /\ lastErr' = FALSE
  /\ IF lastErr
     THEN /\ out' = Append(out, << "Cuda failure", Cur.line >>)
          /\ exited' = TRUE
          /\ exitCode' = 1
          /\ pc' = pc
     ELSE /\ Step
          /\ UNCHANGED << out, exited, exitCode >>
  /\ UNCHANGED << numGPUs, help, p2p_read, cap, drv, ret, args, p2p_method,
                  reg, curDev, flag, q, ev, peer, matrix, cpuMatrix, clock,
                  engineFree, swStart, obs >>

\* return 0 (line 558) and exit(EXIT_SUCCESS) (line 629).
Return0 ==
  /\ At("Return0")
  /\ exited' = TRUE
  /\ exitCode' = 0
  /\ UNCHANGED << numGPUs, help, p2p_read, cap, drv, pc, ret, args,
                  p2p_method, reg, curDev, lastErr, out, flag, q, ev, peer,
                  matrix, cpuMatrix, clock, engineFree, swStart, obs >>

ExitSuccess ==
  /\ At("Exit")
  /\ exited' = TRUE
  /\ exitCode' = Cur.arg
  /\ UNCHANGED << numGPUs, help, p2p_read, cap, drv, pc, ret, args,
                  p2p_method, reg, curDev, lastErr, out, flag, q, ev, peer,
                  matrix, cpuMatrix, clock, engineFree, swStart, obs >>

\* p2p_method = P2P_READ (line 563).
SetRead ==
  /\ At("SetRead")
  /\ p2p_method' = "R"
  /\ Step
  /\ UNCHANGED << numGPUs, help, p2p_read, cap, drv, ret, args, reg, curDev,
                  lastErr, exited, exitCode, out, flag, q, ev, peer, matrix,
                  cpuMatrix, clock, engineFree, swStart, obs >>

\* printf of a title, a note, the usage text, a connectivity cell.
Printf ==
  /\ At("Print")
  /\ out' = Append(out, << Cur.arg, Cur.line >>)
  /\ Step
  /\ UNCHANGED << numGPUs, help, p2p_read, cap, drv, ret, args, p2p_method,
                  reg, curDev, lastErr, exited, exitCode, flag, q, ev, peer,
                  matrix, cpuMatrix, clock, engineFree, swStart, obs >>

\* The printing loops of a sweep (lines 194-210, 344-360, 491-525): the
\* whole matrix, no runtime call in between.
PrintMatrix ==
  /\ At("PrintMatrix")
  /\ out' = Append(out, << "matrix", Cur.line >>)
  /\ Step
  /\ UNCHANGED << numGPUs, help, p2p_read, cap, drv, ret, args, p2p_method,
                  reg, curDev, lastErr, exited, exitCode, flag, q, ev, peer,
                  matrix, cpuMatrix, clock, engineFree, swStart, obs >>

\* vector<double> bandwidthMatrix(numGPUs * numGPUs) (lines 109, 259,
\* 413-414): value-initialised to 0.0.
NewMatrix ==
  /\ At("NewMatrix")
  /\ matrix' = [k \in 0 .. (numGPUs * numGPUs - 1) |-> Zero]
  /\ cpuMatrix' = IF args.fn = "lat"
                  THEN [k \in 0 .. (numGPUs * numGPUs - 1) |-> Zero]
                  ELSE << >>
  /\ obs' = [obs EXCEPT !.written = << >>]
  /\ Step
  /\ UNCHANGED << numGPUs, help, p2p_read, cap, drv, ret, args, p2p_method,
                  reg, curDev, lastErr, exited, exitCode, out, flag, q, ev,
                  peer, clock, engineFree, swStart >>

\* ------------------------------------------ host: runtime calls, queries
\* cudaGetDeviceCount (line 551).
GetDeviceCount ==
  /\ At("GetDeviceCount")
  /\ \E ok \in Outcomes : Returns(ok, [obs EXCEPT !.queries = @ + 1])
  /\ Step
  /\ UNCHANGED << numGPUs, help, p2p_read, cap, drv, ret, args, p2p_method,
                  reg, curDev, exited, exitCode, out, flag, q, ev, peer,
                  matrix, cpuMatrix, clock, engineFree, swStart >>

\* cudaGetDeviceProperties (line 571).
GetDeviceProperties ==
  /\ At("GetDeviceProperties")
  /\ \E ok \in Outcomes : Returns(ok, [obs EXCEPT !.queries = @ + 1])
  /\ Step
  /\ UNCHANGED << numGPUs, help, p2p_read, cap, drv, ret, args, p2p_method,
                  reg, curDev, exited, exitCode, out, flag, q, ev, peer,
                  matrix, cpuMatrix, clock, engineFree, swStart >>

\* cudaSetDevice (lines 67, 97, 112, 121, ...).
SetDeviceCall ==
  /\ At("SetDevice")
  /\ \E ok \in Outcomes :
       /\ Returns(ok, obs)
       /\ curDev' = IF ok THEN reg[Cur.arg] ELSE curDev
  /\ Step
  /\ UNCHANGED << numGPUs, help, p2p_read, cap, drv, ret, args, p2p_method,
                  reg, exited, exitCode, out, flag, q, ev, peer, matrix,
                  cpuMatrix, clock, engineFree, swStart >>

\* cudaDeviceCanAccessPeer(&access, i, j) (lines 73, 117, 267, 422, 592).
\* A failed call leaves access unwritten: the local holds any value.
CanAccessPeer ==
  /\ At("CanAccessPeer")
  /\ \E ok \in Outcomes :
       /\ Returns(ok, [obs EXCEPT !.queries = @ + 1])
       /\ \E a \in IF ok THEN {CanAccess(reg.i, reg.j)} ELSE BOOLEAN :
            reg' = [reg EXCEPT !.access = a]
  /\ Step
  /\ UNCHANGED << numGPUs, help, p2p_read, cap, drv, ret, args, p2p_method,
                  curDev, exited, exitCode, out, flag, q, ev, peer, matrix,
                  cpuMatrix, clock, engineFree, swStart >>

\* cudaDeviceEnablePeerAccess(peer, 0) on the current device (lines 119,
\* 123, 270, 273, 424, 427): refused when the current device cannot reach
\* the peer or has the access enabled already.
EnablePeer ==
  /\ At("EnablePeer")
  /\ \E ok \in Outcomes :
       IF ok /\ (~CanAccess(curDev, reg[Cur.arg]) \/ << curDev, reg[Cur.arg] >> \in peer)
       THEN Refused /\ UNCHANGED peer
       ELSE /\ Returns(ok, obs)
            /\ peer' = IF ok THEN peer \cup {<< curDev, reg[Cur.arg] >>} ELSE peer
  /\ Step
  /\ UNCHANGED << numGPUs, help, p2p_read, cap, drv, ret, args, p2p_method,
                  reg, curDev, exited, exitCode, out, flag, q, ev, matrix,
                  cpuMatrix, clock, engineFree, swStart >>

\* cudaDeviceDisablePeerAccess(peer) on the current device (lines 185, 187,
\* 337, 339, 482, 484): refused when the access is not enabled.
DisablePeer ==
  /\ At("DisablePeer")
  /\ \E ok \in Outcomes :
       IF ok /\ << curDev, reg[Cur.arg] >> \notin peer
       THEN Refused /\ UNCHANGED peer
       ELSE /\ Returns(ok, obs)
            /\ peer' = IF ok THEN peer \ {<< curDev, reg[Cur.arg] >>} ELSE peer
  /\ Step
  /\ UNCHANGED << numGPUs, help, p2p_read, cap, drv, ret, args, p2p_method,
                  reg, curDev, exited, exitCode, out, flag, q, ev, matrix,
                  cpuMatrix, clock, engineFree, swStart >>

\* ---------------------------------------- host: runtime calls, resources
\* cudaHostAlloc of the barrier flag (lines 93, 241, 392).
HostAlloc ==
  /\ At("HostAlloc")
  /\ \E ok \in Outcomes : Returns(ok, [obs EXCEPT !.allocs = @ + 1])
  /\ Step
  /\ UNCHANGED << numGPUs, help, p2p_read, cap, drv, ret, args, p2p_method,
                  reg, curDev, exited, exitCode, out, flag, q, ev, peer,
                  matrix, cpuMatrix, clock, engineFree, swStart >>

\* cudaMalloc of a device's buffer (lines 99, 101, 246, 247, 404, 405).
Malloc ==
  /\ At("Malloc")
  /\ \E ok \in Outcomes : Returns(ok, [obs EXCEPT !.allocs = @ + 1])
  /\ Step
  /\ UNCHANGED << numGPUs, help, p2p_read, cap, drv, ret, args, p2p_method,
                  reg, curDev, exited, exitCode, out, flag, q, ev, peer,
                  matrix, cpuMatrix, clock, engineFree, swStart >>

\* cudaStreamCreateWithFlags (lines 98, 253, 255, 403).
StreamCreate ==
  /\ At("StreamCreate")
  /\ \E ok \in Outcomes : Returns(ok, [obs EXCEPT !.allocs = @ + 1])
  /\ Step
  /\ UNCHANGED << numGPUs, help, p2p_read, cap, drv, ret, args, p2p_method,
                  reg, curDev, exited, exitCode, out, flag, q, ev, peer,
                  matrix, cpuMatrix, clock, engineFree, swStart >>

\* cudaEventCreate (lines 103, 105, 249, 251, 407, 409): a fresh event.
EventCreate ==
  /\ At("EventCreate")
  /\ \E ok \in Outcomes :
       /\ Returns(ok, [obs EXCEPT !.allocs = @ + 1])
       /\ ev' = IF ok THEN [ev EXCEPT ![<< Cur.arg, reg.d >>] = NewEvent] ELSE ev
  /\ Step
  /\ UNCHANGED << numGPUs, help, p2p_read, cap, drv, ret, args, p2p_method,
                  reg, curDev, exited, exitCode, out, flag, q, peer, matrix,
                  cpuMatrix, clock, engineFree, swStart >>

\* cudaFree, cudaEventDestroy, cudaStreamDestroy, cudaFreeHost (lines
\* 214-225, 364-377, 529-542).
Free ==
  /\ At("Free")
  /\ \E ok \in Outcomes : Returns(ok, obs)
  /\ Step
  /\ UNCHANGED << numGPUs, help, p2p_read, cap, drv, ret, args, p2p_method,
                  reg, curDev, exited, exitCode, out, flag, q, ev, peer,
                  matrix, cpuMatrix, clock, engineFree, swStart >>

EventDestroy ==
  /\ At("EventDestroy")
  /\ \E ok \in Outcomes : Returns(ok, obs)
  /\ Step
  /\ UNCHANGED << numGPUs, help, p2p_read, cap, drv, ret, args, p2p_method,
                  reg, curDev, exited, exitCode, out, flag, q, ev, peer,
                  matrix, cpuMatrix, clock, engineFree, swStart >>

StreamDestroy ==
  /\ At("StreamDestroy")
  /\ \E ok \in Outcomes : Returns(ok, obs)
  /\ Step
  /\ UNCHANGED << numGPUs, help, p2p_read, cap, drv, ret, args, p2p_method,
                  reg, curDev, exited, exitCode, out, flag, q, ev, peer,
                  matrix, cpuMatrix, clock, engineFree, swStart >>

FreeHost ==
  /\ At("FreeHost")
  /\ \E ok \in Outcomes : Returns(ok, obs)
  /\ Step
  /\ UNCHANGED << numGPUs, help, p2p_read, cap, drv, ret, args, p2p_method,
                  reg, curDev, exited, exitCode, out, flag, q, ev, peer,
                  matrix, cpuMatrix, clock, engineFree, swStart >>

\* ------------------------------------ host: the measurement protocol
\* cudaStreamSynchronize that returns without waiting for the stream.
StreamSyncNoWait ==
  /\ At("StreamSync")
  /\ \E ok \in Outcomes : Returns(ok, obs)
  /\ Step
  /\ UNCHANGED << numGPUs, help, p2p_read, cap, drv, ret, args, p2p_method,
                  reg, curDev, exited, exitCode, out, flag, q, ev, peer,
                  matrix, cpuMatrix, clock, engineFree, swStart >>
\* cudaStreamSynchronize (lines 130, 172, 280, 281, 322, 323, 432, 473):
\* returns when the stream has retired everything enqueued; a failing call
\* returns at once.
StreamSync ==
  /\ At("StreamSync")
  /\ \E ok \in Outcomes :
       /\ ok => q[StreamOf(Cur.arg)] = << >>
       /\ Returns(ok, obs)
  /\ Step
  /\ UNCHANGED << numGPUs, help, p2p_read, cap, drv, ret, args, p2p_method,
                  reg, curDev, exited, exitCode, out, flag, q, ev, peer,
                  matrix, cpuMatrix, clock, engineFree, swStart >>

\* *flag = 0 (lines 138, 289, 440) and *flag = 1 (lines 171, 321, 472).
\* Closing the barrier starts a cell's protocol.
FlagWrite ==
  /\ At("FlagWrite")
  /\ flag' = Cur.arg
  /\ IF Cur.arg = 0
     THEN /\ Rebase
          /\ obs' = [obs EXCEPT !.closed = TRUE, !.launched = FALSE,
                                !.copies = 0, !.done = 0, !.stops = 0,
                                !.timedOut = FALSE]
     ELSE /\ obs' = [obs EXCEPT !.closed = FALSE]
          /\ UNCHANGED << clock, engineFree, swStart, q, ev >>
  /\ Step
  /\ UNCHANGED << numGPUs, help, p2p_read, cap, drv, ret, args, p2p_method,
                  reg, curDev, lastErr, exited, exitCode, out, peer, matrix,
                  cpuMatrix >>

\* delay<<<1, 1, 0, stream>>>(flag) (lines 139, 292, 441).
Launch ==
  /\ At("Launch")
  /\ \E ok \in Outcomes :
       /\ Returns(ok, [obs EXCEPT !.launched = TRUE])
       /\ IF ok THEN Enqueue(StreamOf(Cur.arg), Op("K", << >>, 0, 0))
          ELSE UNCHANGED << q, engineFree >>
  /\ Step
  /\ UNCHANGED << numGPUs, help, p2p_read, cap, drv, ret, args, p2p_method,
                  reg, curDev, exited, exitCode, out, flag, ev, peer, matrix,
                  cpuMatrix, clock, swStart >>

\* cudaEventRecord(event, stream) (lines 141, 167, 297, 316, 318, 443, 470):
\* the event is incomplete until the stream reaches the record.
EventRecord ==
  /\ At("EventRecord")
  /\ \E ok \in Outcomes :
       LET e == EventOf(Cur.arg.e) IN
       /\ Returns(ok, [obs EXCEPT !.stops = IF e[1] = "stop" THEN @ + 1 ELSE @])
       /\ IF ok
          THEN /\ ev' = [ev EXCEPT ![e] = [issued |-> @.issued + 1, fired |-> @.fired,
                                           ts |-> 0, old |-> FALSE,
                                           st |-> StreamOf(Cur.arg.st)]]
               /\ Enqueue(StreamOf(Cur.arg.st), Op("R", e, ev[e].issued + 1, 0))
          ELSE UNCHANGED << ev, q, engineFree >>
  /\ Step
  /\ UNCHANGED << numGPUs, help, p2p_read, cap, drv, ret, args, p2p_method,
                  reg, curDev, exited, exitCode, out, flag, peer, matrix,
                  cpuMatrix, clock, swStart >>

\* cudaStreamWaitEvent(stream, event, 0) (lines 298, 317): the stream waits
\* for the record of the event that was issued last before this call.
StreamWaitEvent ==
  /\ At("StreamWaitEvent")
  /\ \E ok \in Outcomes :
       LET e == EventOf(Cur.arg.e) IN
       /\ Returns(ok, obs)
       /\ IF ok THEN Enqueue(StreamOf(Cur.arg.st), Op("W", e, ev[e].issued, 0))
          ELSE UNCHANGED << q, engineFree >>
  /\ Step
  /\ UNCHANGED << numGPUs, help, p2p_read, cap, drv, ret, args, p2p_method,
                  reg, curDev, exited, exitCode, out, flag, ev, peer, matrix,
                  cpuMatrix, clock, swStart >>

\* The mock's time for one copy: fixed per byte, one tick for the single
\* byte of the latency sweep.
CopyTicks == IF args.fn = "lat" THEN LatBytes ELSE CopyTime

\* cudaMemcpyPeerAsync(dst, dstDev, src, srcDev, bytes, stream) (lines 147,
\* 155, 162, 303, 304, 309, 310, 449, 457, 464).
MemcpyPeerAsync ==
  /\ At("Memcpy")
  /\ \E ok \in Outcomes :
       /\ Returns(ok, [obs EXCEPT !.copies = @ + 1])
       /\ IF ok
          THEN Enqueue(StreamOf(Cur.arg.st),
                       Op("C", << BufferOf(Cur.arg.src), BufferOf(Cur.arg.dst) >>,
                          0, CopyTicks))
          ELSE UNCHANGED << q, engineFree >>
  /\ Step
  /\ UNCHANGED << numGPUs, help, p2p_read, cap, drv, ret, args, p2p_method,
                  reg, curDev, exited, exitCode, out, flag, ev, peer, matrix,
                  cpuMatrix, clock, swStart >>

\* if (!sdkCreateTimer(&stopWatch)) { printf; exit(EXIT_FAILURE); } (lines
\* 395-398).
TimerCreate ==
  /\ At("TimerCreate")
  /\ \E ok \in Outcomes :
       IF ok
       THEN /\ Step
            /\ UNCHANGED << out, exited, exitCode, obs >>
       ELSE /\ out' = Append(out, << "Failed to create stop watch", Cur.line + 1 >>)
            /\ exited' = TRUE
            /\ exitCode' = 1
            /\ obs' = [obs EXCEPT !.faults = @ + 1]
            /\ pc' = pc
  /\ UNCHANGED << numGPUs, help, p2p_read, cap, drv, ret, args, p2p_method,
                  reg, curDev, lastErr, flag, q, ev, peer, matrix, cpuMatrix,
                  clock, engineFree, swStart >>

\* sdkStartTimer, sdkDeleteTimer (lines 399, 540) and sdkResetTimer (line
\* 445): the stop watch counts from now.

TimerStart ==
  /\ At("TimerStart")
  /\ swStart' = clock
  /\ Step
  /\ UNCHANGED << numGPUs, help, p2p_read, cap, drv, ret, args, p2p_method,
                  reg, curDev, lastErr, exited, exitCode, out, flag, q, ev,
                  peer, matrix, cpuMatrix, clock, engineFree, obs >>

TimerReset ==
  /\ At("TimerReset")
  /\ swStart' = clock
  /\ Step
  /\ UNCHANGED << numGPUs, help, p2p_read, cap, drv, ret, args, p2p_method,
                  reg, curDev, lastErr, exited, exitCode, out, flag, q, ev,
                  peer, matrix, cpuMatrix, clock, engineFree, obs >>

TimerDelete ==
  /\ At("TimerDelete")
  /\ Step
  /\ UNCHANGED << numGPUs, help, p2p_read, cap, drv, ret, args, p2p_method,
                  reg, curDev, lastErr, exited, exitCode, out, flag, q, ev,
                  peer, matrix, cpuMatrix, clock, engineFree, swStart, obs >>

\* cpu_time_ms = sdkGetTimerValue(&stopWatch) (line 468).
TimerRead ==
  /\ At("TimerRead")
  /\ reg' = [reg EXCEPT !.cpu_time_ms = clock - swStart]
  /\ Step
  /\ UNCHANGED << numGPUs, help, p2p_read, cap, drv, ret, args, p2p_method,
                  curDev, lastErr, exited, exitCode, out, flag, q, ev, peer,
                  matrix, cpuMatrix, clock, engineFree, swStart, obs >>

\* What an unwritten float may hold.
Indeterminate == {-1, 0, 1}

\* cudaEventElapsedTime(&time_ms, start, stop) (lines 176, 327, 477):
\* refused unless both events have been recorded and have completed; a
\* failed call leaves time_ms unwritten.  Timestamps older than the time
\* origin give an indeterminate difference.
ElapsedTime ==
  /\ At("ElapsedTime")
  /\ \E ok \in Outcomes :
       LET a == EventOf(Cur.arg.start)
           b == EventOf(Cur.arg.stop)
       IN IF ok /\ Complete(a) /\ Complete(b)
          THEN /\ Returns(TRUE, obs)
               /\ \E t \in IF ev[a].old \/ ev[b].old THEN Indeterminate
                            ELSE {ev[b].ts - ev[a].ts} :
                    reg' = [reg EXCEPT !.time_ms = t]
          ELSE /\ IF ok THEN Refused ELSE Returns(FALSE, obs)
               /\ \E g \in Indeterminate : reg' = [reg EXCEPT !.time_ms = g]
  /\ Step
  /\ UNCHANGED << numGPUs, help, p2p_read, cap, drv, ret, args, p2p_method,
                  curDev, exited, exitCode, out, flag, q, ev, peer, matrix,
                  cpuMatrix, clock, engineFree, swStart >>

\* gb without the doubling on the diagonal (line 181).
GigabytesNoDiagonal(ways) ==
  (ways * numElems * SizeofInt * repeat) \div GbUnit

\* gb without the factor 2.0 of the bidirectional sweep (line 330).
GigabytesOneWay(ways) ==
  LET gb == (numElems * SizeofInt * repeat) \div GbUnit
  IN IF reg.i = reg.j THEN gb * 2 ELSE gb

\* gb (lines 179-182, 330-333), in units of GbUnit bytes: ways is 1 for the
\* unidirectional sweep, 2 (the factor 2.0 of line 330) for the
\* bidirectional one; doubled on the diagonal.
Gigabytes(ways) ==
  LET gb == (ways * numElems * SizeofInt * repeat) \div GbUnit
  IN IF reg.i = reg.j THEN gb * 2 ELSE gb

\* bandwidthMatrix[i * numGPUs + j] = gb / time_s (lines 177-183, 328-334).
StoreBandwidth ==
  /\ At("StoreBandwidth")
  /\ matrix' = [matrix EXCEPT ![Cell] = Frac(Gigabytes(Cur.arg), reg.time_ms)]
  /\ obs' = IF args.fn = "bw"
            THEN [obs EXCEPT !.written = Append(@, Cell),
                             !.uni[args.p2p] =
                    [matrix EXCEPT ![Cell] = Frac(Gigabytes(Cur.arg), reg.time_ms)]]
            ELSE [obs EXCEPT !.written = Append(@, Cell)]
  /\ Step
  /\ UNCHANGED << numGPUs, help, p2p_read, cap, drv, ret, args, p2p_method,
                  reg, curDev, lastErr, exited, exitCode, out, flag, q, ev,
                  peer, cpuMatrix, clock, engineFree, swStart >>

\* gpuLatencyMatrix[...] = gpu_time_ms * 1e3 / repeat and
\* cpuLatencyMatrix[...] = cpu_time_ms * 1e3 / repeat (lines 479-480).
StoreLatency ==
  /\ At("StoreLatency")
  /\ matrix' = [matrix EXCEPT ![Cell] = Frac(reg.time_ms, repeat)]
  /\ cpuMatrix' = [cpuMatrix EXCEPT ![Cell] = Frac(reg.cpu_time_ms, repeat)]
  /\ obs' = [obs EXCEPT !.written = Append(@, Cell)]
  /\ Step
  /\ UNCHANGED << numGPUs, help, p2p_read, cap, drv, ret, args, p2p_method,
                  reg, curDev, lastErr, exited, exitCode, out, flag, q, ev,
                  peer, clock, engineFree, swStart >>

\* -------------------------------------------------------- the device
\* delay (lines 36-48) leaves its loop because *flag is nonzero ...
KernelExit(s) ==
  /\ ~exited
  /\ HeadIs(s, "K")
  /\ flag # 0
  /\ Retire(s)
  /\ UNCHANGED << numGPUs, help, p2p_read, cap, drv, pc, ret, args,
                  p2p_method, reg, curDev, lastErr, exited, exitCode, out,
                  flag, ev, peer, matrix, cpuMatrix, clock, swStart, obs >>

\* delay whose timeout is reported as an error of the launch.
KernelTimeoutLatches(s) ==
  /\ ~exited
  /\ HeadIs(s, "K")
  /\ flag = 0
  /\ drv.timed => clock - HeadOp(s).t > Timeout
  /\ Retire(s)
  /\ obs' = [obs EXCEPT !.timedOut = TRUE, !.anyTimeout = TRUE]
  /\ lastErr' = TRUE
  /\ UNCHANGED << numGPUs, help, p2p_read, cap, drv, pc, ret, args,
                  p2p_method, reg, curDev, exited, exitCode, out, flag, ev,
                  peer, matrix, cpuMatrix, clock, swStart >>

\* delay without the test of the elapsed time (lines 43-46).
KernelNeverTimesOut(s) ==
  /\ FALSE
  /\ UNCHANGED vars

\* ... or because sample_time - start_time > timeout_ns (line 44).  Without
\* a clock the timeout may strike at any moment.
KernelTimeout(s) ==
  /\ ~exited
  /\ HeadIs(s, "K")
  /\ flag = 0
  /\ drv.timed => clock - HeadOp(s).t > Timeout
  /\ Retire(s)
  /\ obs' = [obs EXCEPT !.timedOut = TRUE, !.anyTimeout = TRUE]
  /\ UNCHANGED << numGPUs, help, p2p_read, cap, drv, pc, ret, args,
                  p2p_method, reg, curDev, lastErr, exited, exitCode, out,
                  flag, ev, peer, matrix, cpuMatrix, clock, swStart >>

\* The stream reaches an event record: the event takes the time.
EventFire(s) ==
  /\ ~exited
  /\ HeadIs(s, "R")
  /\ LET h == HeadOp(s) IN
       ev' = [ev EXCEPT ![h.a] = [issued |-> @.issued,
                                  fired |-> Max(@.fired, h.gen),
                                  ts |-> IF h.gen = @.issued THEN clock ELSE @.ts,
                                  old |-> IF h.gen = @.issued THEN FALSE ELSE @.old,
                                  st |-> @.st]]
  /\ Retire(s)
  /\ UNCHANGED << numGPUs, help, p2p_read, cap, drv, pc, ret, args,
                  p2p_method, reg, curDev, lastErr, exited, exitCode, out,
                  flag, peer, matrix, cpuMatrix, clock, swStart, obs >>

\* The stream passes an event wait once the awaited record has completed.
WaitDone(s) ==
  /\ ~exited
  /\ HeadIs(s, "W")
  /\ ev[HeadOp(s).a].fired >= HeadOp(s).gen
  /\ Retire(s)
  /\ UNCHANGED << numGPUs, help, p2p_read, cap, drv, pc, ret, args,
                  p2p_method, reg, curDev, lastErr, exited, exitCode, out,
                  flag, ev, peer, matrix, cpuMatrix, clock, swStart, obs >>

\* A copy completes.
CopyDone(s) ==
  /\ ~exited
  /\ HeadIs(s, "C")
  /\ drv.timed => clock >= HeadOp(s).t
  /\ Retire(s)
  /\ obs' = [obs EXCEPT !.done = @ + 1]
  /\ UNCHANGED << numGPUs, help, p2p_read, cap, drv, pc, ret, args,
                  p2p_method, reg, curDev, lastErr, exited, exitCode, out,
                  flag, ev, peer, matrix, cpuMatrix, clock, swStart >>

\* ------------------------------------------------- the mock's clock
\* The stream's head can retire now.
Instant(s) ==
  /\ q[s] # << >>
  /\ LET h == HeadOp(s) IN
       \/ h.k = "K" /\ (flag # 0 \/ clock - h.t > Timeout)
       \/ h.k = "R"
       \/ h.k = "W" /\ ev[h.a].fired >= h.gen
       \/ h.k = "C" /\ clock >= h.t

KernelDue == {HeadOp(s).t + Timeout + 1 : s \in {x \in Streams : HeadIs(x, "K") /\ flag = 0}}
CopyDue == {HeadOp(s).t : s \in {x \in Streams : HeadIs(x, "C")}}

\* Time passes to the next moment at which the device has something to do:
\* a copy is done, or the delay kernel, the flag still 0, runs into its
\* timeout because the host is late (in at most MaxTimeouts cells of a run).
Advance ==
  /\ ~exited
  /\ \A s \in Streams : ~Instant(s)
  /\ KernelDue \cup CopyDue # {}
  /\ LET t == MinOf(KernelDue \cup CopyDue)
     IN /\ clock' = t
        /\ IF t \in CopyDue
           THEN obs' = obs
           ELSE /\ obs.nTimeouts < MaxTimeouts
                /\ obs' = [obs EXCEPT !.nTimeouts = @ + 1]
  /\ UNCHANGED << numGPUs, help, p2p_read, cap, drv, pc, ret, args,
                  p2p_method, reg, curDev, lastErr, exited, exitCode, out,
                  flag, q, ev, peer, matrix, cpuMatrix, engineFree, swStart >>

\* The host is slow: one tick passes between two of its statements while
\* it queues up a cell and no copy is running, short of the delay kernel's
\* timeout (at most MaxStalls ticks in a run).
Stall ==
  /\ ~exited
  /\ obs.launched
  /\ flag = 0
  /\ obs.nStalls < MaxStalls
  /\ \A s \in Streams : ~Instant(s)
  /\ CopyDue = {}
  /\ \A d \in KernelDue : clock + 1 < d
  /\ clock' = clock + 1
  /\ obs' = [obs EXCEPT !.nStalls = @ + 1]
  /\ UNCHANGED << numGPUs, help, p2p_read, cap, drv, pc, ret, args,
                  p2p_method, reg, curDev, lastErr, exited, exitCode, out,
                  flag, q, ev, peer, matrix, cpuMatrix, engineFree, swStart >>

\* ------------------------------------------------------ specifications
Host ==
  \/ ForEnter \/ ForNext \/ Branch \/ CallSweep \/ ReturnSweep
  \/ CheckError \/ Return0 \/ ExitSuccess \/ SetRead \/ Printf
  \/ PrintMatrix \/ NewMatrix
  \/ GetDeviceCount \/ GetDeviceProperties \/ SetDeviceCall \/ CanAccessPeer
  \/ EnablePeer \/ DisablePeer
  \/ HostAlloc \/ Malloc \/ StreamCreate \/ EventCreate
  \/ Free \/ EventDestroy \/ StreamDestroy \/ FreeHost
  \/ StreamSync \/ FlagWrite \/ Launch \/ EventRecord \/ StreamWaitEvent
  \/ MemcpyPeerAsync
  \/ TimerCreate \/ TimerStart \/ TimerReset \/ TimerDelete \/ TimerRead
  \/ ElapsedTime \/ StoreBandwidth \/ StoreLatency

Device ==
  \E s \in Streams :
    \/ KernelExit(s) \/ KernelTimeout(s) \/ EventFire(s) \/ WaitDone(s)
    \/ CopyDone(s)

Next == Host \/ Device

Spec == Init /\ [][Next]_vars

MockNext == Host \/ Device \/ Advance \/ Stall

MockSpec == MockInit /\ [][MockNext]_vars

\* The host thread keeps running and the devices keep executing what is at
\* the head of their streams; the delay kernel's clock keeps counting, so
\* that its timeout elapses while the flag stays 0.
FairSpec == FairInit /\ [][Next]_vars /\ WF_vars(Host) /\ WF_vars(Device)

\* ========================================================= properties
\* ------------------------------------------------ the barrier protocol
\* The host is at a statement that enqueues work of a cell.
Enqueuing ==
  ~exited /\ Cur.op \in {"Launch", "Memcpy", "EventRecord", "StreamWaitEvent"}

\* The transfer calls and stop records one cell makes.
ExpectedCopies == IF args.fn = "bidi" THEN 2 * repeat ELSE repeat
ExpectedStops == IF args.fn = "bidi" THEN 2 ELSE 1

\* C1: in every sweep and cell the host has written the flag to 0 before it
\* launches the cell's delay kernel, the flag is 0 whenever the host is
\* about to enqueue a kernel, a copy, a record or a wait of the cell, and
\* the flag changes only by the host's two writes, to 1 only once all the
\* cell's copies and its stop record(s) have been issued.
FlagOrdering ==
  /\ [](Enqueuing => flag = 0)
  /\ [](At("Launch") => obs.closed /\ obs.copies = 0 /\ obs.stops = 0)
  /\ [][flag' # flag =>
          /\ At("FlagWrite")
          /\ flag' = 1 => /\ obs.copies = ExpectedCopies
                          /\ obs.stops = ExpectedStops]_vars

\* A bidirectional cell between two devices has been queued up completely
\* and its barrier opened.
BarrierOpened ==
  /\ ~exited
  /\ flag = 1
  /\ args.fn = "bidi"
  /\ reg.i # reg.j
  /\ obs.copies = 2 * RepeatBw
  /\ obs.stops = 2
  /\ ~obs.failed

\* ------------------------------------------------------------- --help
\* C2: with --help the program makes no device query (the device count
\* included), no allocation and no measurement, and when it has exited it
\* has printed the usage text and nothing else and its status is 0.
HelpOnlyPrintsUsage ==
  help =>
    /\ obs.queries = 0
    /\ obs.allocs = 0
    /\ obs.sweep = 0
    /\ exited => exitCode = 0 /\ out = << << "usage", 557 >> >>

\* --help, and the run ended with a failure status and no usage text.
HelpFailed ==
  /\ help
  /\ exited
  /\ exitCode = 1
  /\ \A k \in 1 .. Len(out) : out[k][1] # "usage"

\* ------------------------------------------------------------- errors
\* C3: a run in which a runtime call has failed never exits with status 0:
\* from the failure on the error is pending in the runtime until the next
\* cudaCheckError ends the process with a non-zero status.
FailureIsFatal ==
  obs.failed => \/ ~exited /\ lastErr
                \/ exited /\ exitCode # 0

\* The second peer-access disable of a bidirectional cell (line 339), which
\* no check follows directly, failed and the process ended with status 1.
UncheckedFailureCaught ==
  /\ exited
  /\ exitCode = 1
  /\ \E f \in obs.failedAt : f[2] = 339

\* The matrix of the s-th sweep of the run has been printed.
MatrixPrinted(s) ==
  Cardinality({k \in 1 .. Len(out) : out[k][1] = "matrix"}) >= s

\* The source line is a statement of a sweep function that comes before the
\* function's printing loops: its allocation and grid phases.
BeforePrint(line) ==
  \E k, m \in 1 .. Len(Program) :
    /\ Program[k].line = line
    /\ Program[m].op = "PrintMatrix"
    /\ FnAt(k) = FnAt(m)
    /\ k < m

\* C4: the matrix of a sweep is printed only if no runtime call of the
\* sweep's allocation and grid phases (the last cell's peer-access disable
\* included) has failed.
NoMatrixAfterFailure ==
  \A f \in obs.failedAt : BeforePrint(f[2]) => ~MatrixPrinted(f[1])

\* The elapsed-time read or a peer-access disable of a sweep failed, the
\* sweep's matrix was printed all the same, and the process then ended with
\* a failure status.
MatrixThenFailure ==
  /\ exited
  /\ exitCode = 1
  /\ \E f \in obs.failedAt : BeforePrint(f[2]) /\ MatrixPrinted(f[1])

\* The source line is an allocation (flag, buffer, stream, event) or a
\* capability query.
AllocOrQuery(line) ==
  \E k \in 1 .. Len(Program) :
    /\ Program[k].line = line
    /\ Program[k].op \in {"HostAlloc", "Malloc", "StreamCreate", "EventCreate",
                          "CanAccessPeer"}

\* The source line belongs to checkP2Paccess.
InP2Paccess(line) == \E k \in 1 .. Len(P2Paccess) : P2Paccess[k].line = line

ConnectivityPrinted ==
  \E k \in 1 .. Len(out) : out[k][1] \in {"conn.title", "conn.cell"}

CellStart == ~exited /\ Cur.op = "If" /\ Cur.arg.cond = "p2p"

\* C6: cudaDeviceEnablePeerAccess is never called for a pair that is
\* enabled already, and no pair is enabled at the start of a cell, at the
\* call of a sweep function or at its return (so every enable of a cell has
\* been undone by the matching disable in the cell).
PeerAccessBracketsCell ==
  /\ At("EnablePeer") => << curDev, reg[Cur.arg] >> \notin peer
  /\ CellStart => peer = {}
  /\ At("Call") \/ At("Ret") => peer = {}

\* The bidirectional sweep is about to enable a pair that an earlier cell
\* left enabled.
EnableOfEnabledPair ==
  /\ At("EnablePeer")
  /\ args.fn = "bidi"
  /\ << curDev, reg[Cur.arg] >> \in peer

\* -------------------------------------------------- transfer direction
\* The copies of the unidirectional and latency sweeps waiting in stream s.
QueuedCopies(s) ==
  {k \in 1 .. Len(q[s]) : q[s][k].k = "C" /\ args.fn \in {"bw", "lat"}}

\* C7: in the unidirectional and latency sweeps every copy of a cell (i,j)
\* is in device i's stream; with i # j the write policy copies from device
\* i's buffer to device j's and the read policy from device j's to device
\* i's; with i = j both policies copy buffersD2D[i] to buffers[i].
PolicyDirection ==
  \A s \in Streams : \A k \in QueuedCopies(s) :
    LET i == q[s][k].cell[1]
        j == q[s][k].cell[2]
    IN /\ s = << "s0", i >>
       /\ q[s][k].a =
            IF i = j THEN << << "buffersD2D", i >>, << "buffers", i >> >>
            ELSE IF args.method = "W"
                 THEN << << "buffers", i >>, << "buffers", j >> >>
                 ELSE << << "buffers", j >>, << "buffers", i >> >>

\* A copy of the read policy between two devices is in a stream of the
\* unidirectional sweep.
ReadCopyQueued ==
  /\ args.fn = "bw"
  /\ args.method = "R"
  /\ \E s \in Streams : \E k \in QueuedCopies(s) :
       q[s][k].cell[1] # q[s][k].cell[2]

\* ------------------------------------------------- measured values
\* The host has just stored the value(s) of cell (reg.i, reg.j).
CellStored == ~exited /\ Cur.op = "If" /\ Cur.arg.cond = "p2p&&access"

\* Comparison of measured values with positive denominators.
SameValue(a, b) == a.den > 0 /\ b.den > 0 /\ a.num * b.den = b.num * a.den
AtLeast(a, b) == a.den > 0 /\ b.den > 0 /\ a.num * b.den >= b.num * a.den

\* The mock's bandwidth: the bytes of one copy (in GbUnit) per CopyTime.
SimulatedBandwidth == Frac((numElems * SizeofInt) \div GbUnit, CopyTime)
Twice(v) == Frac(2 * v.num, v.den)

Expected(i, j) ==
  IF i = j THEN Twice(SimulatedBandwidth) ELSE SimulatedBandwidth

UniP2PWrite == args.fn = "bw" /\ args.p2p /\ args.method = "W"

\* C8: on the mock, the unidirectional sweep with P2P enabled and the write
\* policy stores the simulated bandwidth in every off-diagonal cell and
\* twice that in every diagonal cell whose barrier was opened before the
\* delay kernel's timeout, and prints a matrix of these values when no
\* barrier of the run timed out.
MockUnidirectionalValues ==
  UniP2PWrite =>
    /\ CellStored /\ ~obs.timedOut =>
         SameValue(matrix[Cell], Expected(reg.i, reg.j))
    /\ At("PrintMatrix") /\ obs.nTimeouts = 0 =>
         \A i, j \in 0 .. (numGPUs - 1) :
           SameValue(matrix[i * numGPUs + j], Expected(i, j))

\* The sweep with P2P enabled and the write policy is about to print its
\* matrix for two devices, no barrier having timed out.
UniMatrixComplete ==
  /\ UniP2PWrite
  /\ At("PrintMatrix")
  /\ numGPUs = 2
  /\ obs.nTimeouts = 0

\* The bidirectional sweep has just stored a cell for which the
\* unidirectional sweep with the same p2p has stored a value.
BidiStored ==
  /\ CellStored
  /\ args.fn = "bidi"
  /\ Cell \in DOMAIN obs.uni[args.p2p]

\* C9: on the mock, with overlapping as with serialized copies, the value
\* the bidirectional sweep stores for a cell whose barrier was opened
\* before the delay kernel's timeout is at least the value the
\* unidirectional sweep stored for the cell under the same p2p.
BidiAtLeastUni ==
  BidiStored /\ ~obs.timedOut =>
    AtLeast(matrix[Cell], obs.uni[args.p2p][Cell])

\* C9 as stated: the value the bidirectional sweep stores for a cell is at
\* least the value the unidirectional sweep stored for it under the same
\* p2p, overlapping or serialized copies.
BidiAtLeastUniAlways ==
  BidiStored => AtLeast(matrix[Cell], obs.uni[args.p2p][Cell])

\* With serialized copies the bidirectional value of a cell between two
\* devices equals the unidirectional one.
BidiEqualsUniSerialized ==
  /\ BidiStored
  /\ ~obs.timedOut
  /\ ~drv.overlap
  /\ reg.i # reg.j
  /\ SameValue(matrix[Cell], obs.uni[args.p2p][Cell])

LatStored == CellStored /\ args.fn = "lat"

\* C10: on the mock, the device-measured latency stored for a cell is
\* positive and the host-measured one is not negative; the stop watch is
\* read while the barrier is still closed, before the start event of the
\* cell has completed, unless the delay kernel has timed out.
LatencyIntervals ==
  /\ LatStored => /\ matrix[Cell].num > 0 /\ matrix[Cell].den > 0
                  /\ cpuMatrix[Cell].num >= 0 /\ cpuMatrix[Cell].den > 0
  /\ At("TimerRead") /\ ~obs.timedOut =>
       /\ flag = 0
       /\ ~Complete(EventOf(<< "start", "i" >>))

\* C10 as stated: both values stored for a cell of the latency sweep are
\* positive and the host-measured one is at least the device-measured one.
HostAtLeastDevice ==
  LatStored => /\ matrix[Cell].num > 0
               /\ cpuMatrix[Cell].num > 0
               /\ AtLeast(cpuMatrix[Cell], matrix[Cell])

\* A cell of the latency sweep with a positive host-measured value that is
\* smaller than the device-measured one.
HostBelowDevice ==
  /\ LatStored
  /\ ~obs.timedOut
  /\ cpuMatrix[Cell].num > 0
  /\ ~AtLeast(cpuMatrix[Cell], matrix[Cell])

\* ---------------------------------------------------- matrix layout
\* The bytes a cell of a bandwidth sweep accounts for.
CellBytes ==
  SizeofInt * numElems * repeat
    * (IF args.fn = "bidi" THEN 2 ELSE 1)
    * (IF reg.i = reg.j THEN 2 ELSE 1)

\* The cells 0 .. n - 1 in row-major order.
RowMajor(n) == [k \in 1 .. n |-> k - 1]

\* C11: a matrix has numGPUs * numGPUs cells; the cells are written one by
\* one in row-major order and all of them exactly once when the matrix is
\* printed; the byte count of a unidirectional cell is
\* sizeof(int) * numElems * repeat, of a bidirectional cell twice that, each
\* doubled for i = j.
MatrixLayout ==
  /\ matrix # << >> => DOMAIN matrix = 0 .. (numGPUs * numGPUs - 1)
  /\ cpuMatrix # << >> => DOMAIN cpuMatrix = 0 .. (numGPUs * numGPUs - 1)
  /\ obs.written = RowMajor(Len(obs.written))
  /\ At("PrintMatrix") => obs.written = RowMajor(numGPUs * numGPUs)
  /\ CellStored /\ args.fn \in {"bw", "bidi"} =>
       matrix[Cell].num * GbUnit = CellBytes

\* The bidirectional sweep is about to print its four cells for two devices.
BidiMatrixWritten ==
  /\ At("PrintMatrix")
  /\ args.fn = "bidi"
  /\ numGPUs = 2
  /\ Len(obs.written) = 4

\* ------------------------------------------------------- sweep order
\* The sweeps of a run with the read policy, as function, p2p, policy.
AllSweeps ==
  << << "bw", FALSE, "W" >>, << "bw", TRUE, "W" >>, << "bw", TRUE, "R" >>,
     << "bidi", FALSE, "W" >>, << "bidi", TRUE, "W" >>,
     << "lat", FALSE, "W" >>, << "lat", TRUE, "W" >>, << "lat", TRUE, "R" >> >>

NotRead(sw) == sw[3] # "R"

SweepsOfRun == IF p2p_read THEN AllSweeps ELSE SelectSeq(AllSweeps, NotRead)

\* C12: the sweeps a run has started are the first ones of the order
\* unidirectional (off, on, on with reads), bidirectional (off, on), latency
\* (off, on, on with reads), the two read sweeps being part of it exactly
\* when --p2p_read was given; a sweep is started with every stream idle and
\* no sweep running; a run that ends with status 0 after the usage check
\* has done all of them.
SweepOrder ==
  /\ Len(obs.sweeps) <= Len(SweepsOfRun)
  /\ obs.sweeps = SubSeq(SweepsOfRun, 1, Len(obs.sweeps))
  /\ At("Call") => args.fn = "main" /\ \A s \in Streams : q[s] = << >>
  /\ exited /\ exitCode = 0 /\ ~help => obs.sweeps = SweepsOfRun

\* A run with --p2p_read has ended with status 0 after eight sweeps.
ReadRunDone ==
  /\ exited
  /\ exitCode = 0
  /\ p2p_read
  /\ Len(obs.sweeps) = 8

\* The peer access the cell (reg.i, reg.j) of the running sweep is to have.
PeerForCell ==
  IF args.p2p /\ reg.i # reg.j /\ CanAccess(reg.i, reg.j)
  THEN {<< reg.i, reg.j >>, << reg.j, reg.i >>}
  ELSE {}

\* C13: when a cell's delay kernel is launched, peer access is enabled
\* between i and j, in both directions, if p2p was requested for the sweep,
\* i # j and device i can access device j, and no peer access is enabled
\* otherwise; cudaDeviceEnablePeerAccess and cudaDeviceDisablePeerAccess are
\* called only in a sweep with p2p requested, for a cell with i # j.
PeerEnabledWhenRequested ==
  /\ At("Launch") => peer = PeerForCell
  /\ At("EnablePeer") \/ At("DisablePeer") => args.p2p /\ reg.i # reg.j

\* The host is about to call cudaDeviceEnablePeerAccess for a diagonal cell.
EnableOnDiagonal ==
  /\ At("EnablePeer")
  /\ reg.i = reg.j

\* ------------------------------------------- what the events bracket
\* The host is in the body of the grid loops, at a statement of cell
\* (reg.i, reg.j).
InCell ==
  /\ args.fn # "main"
  /\ Pos("Loop", args.fn \o ".j") < pc
  /\ pc <= Pos("EndLoop", args.fn \o ".j")

\* The latest record of the event was issued after the barrier was last
\* closed and the stream has reached it.
Fired(e) == Complete(e) /\ ~ev[e].old

StartFired == Fired(<< "start", reg.i >>)
StopFired == Fired(<< "stop", reg.i >>)

\* A copy is executing (it is the head of its stream) or waits in a stream.
CopyExecuting == \E s \in Streams : HeadIs(s, "C")
CopyQueued == \E s \in Streams : \E k \in 1 .. Len(q[s]) : q[s][k].k = "C"
KernelQueued == \E s \in Streams : \E k \in 1 .. Len(q[s]) : q[s][k].k = "K"

\* The latency sweep's record of the start event (line 443, whose result
\* is read by the check of line 474 only) has failed in this sweep.
StartLost == args.fn = "lat" /\ << obs.sweep, 443 >> \in obs.failedAt

\* The order of a cell's events and copies; unrecorded says when a copy
\* may run with no start event of the cell.
Bracketed(unrecorded) ==
  InCell /\ args.fn \in {"bw", "lat"} =>
    /\ StartFired => ~KernelQueued /\ (obs.timedOut \/ flag = 1)
    /\ CopyExecuting => (StartFired \/ unrecorded) /\ ~StopFired
    /\ obs.closed /\ obs.done > 0 => StartFired \/ unrecorded
    /\ StopFired => /\ StartFired \/ unrecorded
                    /\ ~CopyQueued
                    /\ obs.failed \/ obs.done = repeat

Kernels(s) == {k \in 1 .. Len(q[s]) : q[s][k].k = "K"}

\* The bidirectional sweep's record of start[i] (line 297) or the wait of
\* stream1[j] for it (line 298), both read by the check of line 324 only,
\* has failed in this sweep.
GateLost ==
  /\ args.fn = "bidi"
  /\ \E l \in {297, 298} : << obs.sweep, l >> \in obs.failedAt

\* One delay kernel per cell, on stream0[i]; ungated says when a copy may
\* run with no start event of the cell.
Gated(ungated) ==
  InCell /\ args.fn = "bidi" =>
    /\ At("Launch") => ~obs.launched /\ Cur.arg = << "stream0", "i" >>
    /\ \A s \in Streams :
         Cardinality(Kernels(s)) <= (IF s = << "s0", reg.i >> THEN 1 ELSE 0)
    /\ StartFired => ~KernelQueued /\ (obs.timedOut \/ flag = 1)
    /\ HeadIs(<< "s1", reg.j >>, "C") => StartFired \/ ungated
    /\ CopyExecuting => StartFired \/ ungated
    /\ obs.closed /\ obs.done > 0 => StartFired \/ ungated

BarrierAt(fn) ==
  CHOOSE k \in 1 .. Len(Program) :
    FnAt(k) = fn /\ Program[k].op = "FlagWrite" /\ Program[k].arg = 0

Opened == InCell /\ pc > BarrierAt(args.fn)

\* Every stop record of the cell has been issued and the last one, the one
\* an elapsed-time read uses, has fired.
LastStopFired == obs.stops = ExpectedStops /\ StopFired

\* C16: in the bidirectional sweep, diagonal cells included (where stop[j]
\* and stop[i] are one event, recorded on stream1[i] and again on
\* stream0[i]), the elapsed time is read with start[i] and stop[i] fired,
\* both streams of the cell drained and all 2 * repeat copies completed;
\* and, no call having failed, the last stop record has fired only when no
\* copy is left in either stream and a copy executes only between the
\* firing of start[i] and of that record.
StopAfterBothStreams ==
  InCell /\ args.fn = "bidi" =>
    /\ At("ElapsedTime") =>
         /\ StartFired /\ LastStopFired
         /\ q[<< "s0", reg.i >>] = << >> /\ q[<< "s1", reg.j >>] = << >>
         /\ obs.done = 2 * repeat
    /\ Opened /\ ~obs.failed /\ LastStopFired =>
         ~CopyQueued /\ obs.done = 2 * repeat /\ StartFired
    /\ ~obs.failed /\ CopyExecuting => Opened /\ StartFired /\ ~LastStopFired

\* The elapsed time of a diagonal cell of the bidirectional sweep is read,
\* its stop event recorded twice.
DiagonalStopRead ==
  /\ InCell
  /\ args.fn = "bidi"
  /\ reg.i = reg.j
  /\ At("ElapsedTime")
  /\ ev[<< "stop", reg.i >>].issued >= 2
  /\ obs.done = 2 * RepeatBw

\* ------------------------------------------------ the elapsed-time read
\* C17: in every sweep, whenever the host is about to read the elapsed time
\* of a cell, the latest records of both events it reads were issued for
\* this cell and have fired, both were recorded on one stream, the cell's
\* stream on device i, and that stream is drained; this holds as well when
\* the delay kernel left by its timeout.
ElapsedReadAfterEvents ==
  At("ElapsedTime") =>
    LET a == EventOf(Cur.arg.start)
        b == EventOf(Cur.arg.stop)
    IN /\ Fired(a) /\ Fired(b)
       /\ ev[a].st = ev[b].st
       /\ ev[a].st = << "s0", reg.i >>
       /\ q[ev[a].st] = << >>
       /\ ~lastErr

\* The elapsed time of a cell whose delay kernel timed out is read.
ReadAfterTimeout ==
  /\ At("ElapsedTime")
  /\ obs.timedOut
  /\ Fired(<< "start", reg.i >>)
  /\ Fired(<< "stop", reg.i >>)

\* ------------------------------------------------- one cell at a time
\* The operations waiting or running in the streams, with their streams.
Pending == UNION {{<< s, k >> : k \in 1 .. Len(q[s])} : s \in Streams}

\* C18: the cells run one after another: when the host closes the barrier
\* (writes the flag to 0) and when it launches a cell's delay kernel, every
\* stream of every device is empty; every operation in a stream belongs to
\* the cell the host is at; at most one delay kernel is in a stream at any
\* time, and it was launched with the flag closed by its own cell.
CellsSerialized ==
  /\ (At("FlagWrite") /\ Cur.arg = 0) \/ At("Launch") =>
       \A s \in Streams : q[s] = << >>
  /\ At("Launch") => obs.closed /\ flag = 0
  /\ \A p \in Pending :
       /\ args.fn # "main"
       /\ q[p[1]][p[2]].cell = << reg.i, reg.j >>
  /\ Cardinality({p \in Pending : q[p[1]][p[2]].k = "K"}) <= 1
  /\ KernelQueued /\ flag = 1 => obs.stops = ExpectedStops

\* The barrier of a second cell is being closed, after a first cell whose
\* copies have all run.
SecondCellStarts ==
  /\ At("FlagWrite")
  /\ Cur.arg = 0
  /\ << reg.i, reg.j >> # << 0, 0 >>
  /\ obs.done > 0
  /\ \A s \in Streams : q[s] = << >>

\* --------------------------------------------------------- termination
\* The host is in a call that has not returned: a synchronisation with a
\* stream that still holds work, or an enqueue into a full stream.
HostWaits ==
  \/ At("StreamSync") /\ q[StreamOf(Cur.arg)] # << >>
  \/ /\ drv.depth > 0
     /\ \/ At("Launch") /\ Len(q[StreamOf(Cur.arg)]) >= drv.depth
        \/ /\ At("EventRecord") \/ At("StreamWaitEvent") \/ At("Memcpy")
           /\ Len(q[StreamOf(Cur.arg.st)]) >= drv.depth

\* C19: with the devices executing fairly and no driver call failing, no
\* wait of the host lasts forever (neither a stream synchronisation nor an
\* enqueue blocked by a full stream while the barrier is closed) and every
\* run, in every mode, ends, with exit status 0 unless a call was refused.
RunTerminates ==
  /\ []<>(~HostWaits)
  /\ <>(exited /\ (obs.failed \/ exitCode = 0))

\* The host is blocked in an enqueue: the stream is full and the delay
\* kernel at its head waits for the flag, which is still 0.
EnqueueBlocked ==
  /\ drv.depth > 0
  /\ At("Memcpy")
  /\ flag = 0
  /\ Len(q[StreamOf(Cur.arg.st)]) = drv.depth
  /\ HeadIs(StreamOf(Cur.arg.st), "K")

\* -------------------------------------------------- the barrier's timeout
\* No runtime call has failed and the host timer was created (lines
\* 395-398 exit when it was not).
NothingFailed == ~obs.failed /\ ~(exited /\ Cur.op = "TimerCreate")

\* C20: a delay kernel that leaves by its timeout raises no error: unless a
\* call failed, no error is latched and the process does not exit with a
\* failure; the value of the cell is still computed and stored at its
\* place; and a run in which a kernel timed out and no call failed runs
\* every sweep and exits with status 0.
TimeoutNotFatal ==
  /\ obs.timedOut /\ NothingFailed => ~lastErr /\ (exited => exitCode = 0)
  /\ obs.timedOut /\ CellStored =>
       /\ obs.written # << >>
       /\ obs.written[Len(obs.written)] = Cell
  /\ obs.anyTimeout /\ NothingFailed /\ exited =>
       exitCode = 0 /\ obs.sweeps = SweepsOfRun

\* A run in which a delay kernel timed out has run every sweep and exited
\* with status 0.
TimedOutRunDone ==
  /\ exited
  /\ exitCode = 0
  /\ obs.anyTimeout
  /\ ~obs.failed
  /\ obs.sweeps = SweepsOfRun

\* --------------------------------------------- the device of the launch
\* C21: in every sweep and cell, whether or not P2P is requested and the
\* pair capable, the host's current device is i, the device of the stream
\* the kernel goes into, when the delay kernel is launched, although the
\* enable and disable sequences switched the current device to j.
LaunchOnCurrentDevice ==
  At("Launch") =>
    /\ curDev = reg.i
    /\ StreamOf(Cur.arg) = << "s0", curDev >>

\* The kernel of a bidirectional cell between two devices is about to be
\* launched, the pair's access enabled by calls that left the host on j.
LaunchAfterEnable ==
  /\ At("Launch")
  /\ args.fn = "bidi"
  /\ reg.i # reg.j
  /\ << reg.j, reg.i >> \in peer
  /\ ~obs.failed

\* ------------------------------------ peer access during the transfers
\* The host is between the closing of the cell's barrier, which precedes
\* the first copy, and the test that guards the cell's disable calls,
\* which follows the wait for the cell's streams.
Measuring ==
  /\ ~exited
  /\ Opened
  /\ pc <= Pos("If", args.fn \o ".dis")

\* C22: in a sweep with P2P requested, for a cell of a capable pair, the
\* access is enabled in both directions all the while from the closing of
\* the barrier, before the first copy is enqueued, until the host has
\* waited for the cell's streams and reaches the disable sequence; a copy
\* is pending or executing only within that span; and every disable call
\* is issued with every stream empty.
PeerAccessSpansCopies ==
  /\ Measuring /\ args.p2p /\ CanAccess(reg.i, reg.j) =>
       {<< reg.i, reg.j >>, << reg.j, reg.i >>} \subseteq peer
  /\ ~exited /\ CopyQueued => Measuring
  /\ At("DisablePeer") => \A s \in Streams : q[s] = << >>

\* The first disable call of a cell of the bidirectional sweep, all its
\* copies completed and the access still enabled in both directions.
DisableAfterDrain ==
  /\ At("DisablePeer")
  /\ args.fn = "bidi"
  /\ obs.done = 2 * RepeatBw
  /\ {<< reg.i, reg.j >>, << reg.j, reg.i >>} \subseteq peer
=============================================================================
